---- MODULE Spec2Model ----
(***************************************************************************)
(* Multi-Agent A2A: the two server-side agent executors (CrewAI question   *)
(* generator, LangGraph LaTeX converter), the remote invocation client     *)
(* (A2ARemoteAgentTool.run), and the orchestrator that chains the two      *)
(* agents (run_workflow).                                                  *)
(*                                                                         *)
(* Texts are sequences of characters.  Each execute call has the queue of  *)
(* the events it published, in order; the task store holds every task as   *)
(* the published events leave it.                                          *)
(***************************************************************************)
EXTENDS Integers, Sequences, FiniteSets, TLC

\* ------------------------------------------------------------------ bounds
MaxLen == 1        \* longest user input text
MaxOut == 1        \* longest raw text returned by a generation backend
MaxCancel == 2     \* cancel calls handled by the server
MaxArtifacts == 2  \* most artifacts in a response
MaxParts == 1      \* most parts in an artifact or a message of a response
MaxCalls == 2      \* run calls made by the client, one after the other
MaxQuestions == 4  \* longest questions text handed to the LaTeX agent's graph

\* ------------------------------------------------------------------- texts
Chars == {"a", " "}

SeqsUpTo(S, n) == UNION {[1..k -> S] : k \in 0..n}

Texts == SeqsUpTo(Chars, MaxLen)

BackendTexts == SeqsUpTo({"a"}, MaxOut)

IsSpace(c) == c \in {" ", "\n"}

RECURSIVE LStrip(_)
LStrip(s) == IF Len(s) > 0 /\ IsSpace(Head(s)) THEN LStrip(Tail(s)) ELSE s

RECURSIVE RStrip(_)
RStrip(s) ==
    IF Len(s) > 0 /\ IsSpace(s[Len(s)]) THEN RStrip(SubSeq(s, 1, Len(s) - 1)) ELSE s

\* str.strip()
Strip(s) == RStrip(LStrip(s))

\* --------------------------------------------------------------- executors
Executors == {"question", "latex"}

None == 0

\* the execute calls the model follows; the two may overlap
Reqs == {1, 2}

\* each call creates at most one task
TaskIds == Reqs

VARIABLES
    pc,          \* pc[r]: position of execute call r
    req,         \* req[r]: executor, user text and referenced task of call r
    task,        \* task[r]: id of the task resolved by call r (None before)
    result,      \* result[r]: text returned by the backend to call r
    err,         \* err[r]: error raised out of call r ("none" if none)
    backendOut,  \* backendOut[r]: "none", "ok" or "error"
    backendCalls,\* backendCalls[r]: number of backend invocations of call r
    queue,       \* queue[r]: events call r published to its event queue, in order
    store,       \* store[t]: task t as the published events leave it
    nextId,      \* next fresh task / context id
    cancelCount, \* number of cancel calls handled
    lastCancel   \* the last cancel call: its task, that task's state, the error

serverVars == <<pc, req, task, result, err, backendOut, backendCalls, queue,
                store, nextId, cancelCount, lastCancel>>

VARIABLES
    cpc,        \* position of the current run call
    call,       \* arguments of the current run call
    fetches,    \* agent card fetches made by the current call
    sent,       \* messages submitted by the current call, in order
    response,   \* response received by the current call
    raised,     \* exception raised inside the current call's try block
    ret,        \* text returned by the current call
    cerr,       \* error raised out of the current call
    calls,      \* number of run calls started
    nextMsg     \* next fresh message id (uuid4)

clientVars == <<cpc, call, fetches, sent, response, raised, ret, cerr, calls, nextMsg>>

VARIABLES
    wpc,        \* wpc[w]: position of pipeline run w
    topic,      \* topic[w]: the topic run w was started with
    invokes,    \* invokes[w]: the tool.run calls made by run w, in order
    questions,  \* questions[w]: local variable questions of run w
    latex_code, \* latex_code[w]: local variable latex_code of run w
    wret,       \* wret[w]: value returned by run w
    werr,       \* werr[w]: error raised out of run w
    uuid        \* next fresh message id (uuid4), shared by all runs

pipeVars == <<wpc, topic, invokes, questions, latex_code, wret, werr, uuid>>

\* the command-line entry points (client/__main__.py, run_all.py)
VARIABLES
    mpc,        \* position of main
    margs,      \* the entry point and its parsed arguments
    caught,     \* the except clause of main that ran
    outfile,    \* the file named by --save
    exit_code,  \* the exit codes the process has ended with
    procs,      \* run_all: procs[i]: the agent process i
    processes,  \* run_all: the list of started processes
    ready,      \* run_all: the agents that answered wait_for_agents
    cleanups    \* run_all: calls of cleanup_processes made

mainVars == <<mpc, margs, caught, outfile, exit_code, procs, processes, ready, cleanups>>

\* the LaTeX agent's state graph (LatexConverterAgent)
VARIABLES
    gpc,        \* the node the graph runs next, or where convert_to_latex is
    gstate,     \* the graph state: questions, latex_code, metadata
    visited,    \* the nodes run so far, in order, each with what it wrote
    prompts,    \* the question lists sent to the backend, in order
    gret        \* the text convert_to_latex returned

graphVars == <<gpc, gstate, visited, prompts, gret>>

vars == <<serverVars, clientVars, pipeVars, mainVars, graphVars>>

\* ------------------------------------------------------------------- tasks
NoTask == [state |-> "none", ctx |-> None, artifacts |-> <<>>]

TaskExists(t) == store[t].state # "none"

ExistingTasks == {t \in TaskIds : TaskExists(t)}

TaskStateOf(t) == IF t = None THEN "none" ELSE store[t].state

\* ------------------------------------------------------------------- events
\* mutant: the new task is announced by a status update, not published
TaskEventAsStatus(id) ==
    [kind |-> "status", task |-> id, ctx |-> id, state |-> "submitted",
     text |-> <<>>, name |-> ""]

\* new_task(message): a task with fresh ids in state submitted
TaskEvent(id) ==
    [kind |-> "task", task |-> id, ctx |-> id, state |-> "submitted",
     text |-> <<>>, name |-> ""]

\* mutant: the working update carries no progress message
WorkingEventNoMessage(t, ctx, msg) ==
    [kind |-> "status", task |-> t, ctx |-> ctx, state |-> "working",
     text |-> <<>>, name |-> ""]

\* mutant: the working update is published without the task's context id
WorkingEventNoContext(t, ctx, msg) ==
    [kind |-> "status", task |-> t, ctx |-> None, state |-> "working",
     text |-> <<>>, name |-> msg]

\* TaskUpdater.update_status(TaskState.working, message)
WorkingEvent(t, ctx, msg) ==
    [kind |-> "status", task |-> t, ctx |-> ctx, state |-> "working",
     text |-> <<>>, name |-> msg]

\* TaskUpdater.add_artifact([Part(root=TextPart(text=...))], name=...)
ArtifactEvent(t, ctx, txt, nm) ==
    [kind |-> "artifact", task |-> t, ctx |-> ctx, state |-> "none",
     text |-> txt, name |-> nm]

\* TaskUpdater.complete()
CompletedEvent(t, ctx) ==
    [kind |-> "status", task |-> t, ctx |-> ctx, state |-> "completed",
     text |-> <<>>, name |-> ""]

\* the task an event leaves behind: a task event creates it, a status event
\* sets its state, an artifact event appends one artifact
ApplyEvent(st, e) ==
    IF e.kind = "task"
    THEN [st EXCEPT ![e.task] = [state |-> e.state, ctx |-> e.ctx, artifacts |-> <<>>]]
    ELSE IF e.kind = "status"
    THEN [st EXCEPT ![e.task].state = e.state]
    ELSE [st EXCEPT ![e.task].artifacts = Append(@, [name |-> e.name, parts |-> <<e.text>>])]

\* enqueue the events of one step of call r
Publish(r, evs) ==
    /\ queue' = [queue EXCEPT ![r] = @ \o evs]
    /\ store' = IF Len(evs) = 0 THEN store ELSE ApplyEvent(store, evs[1])

ArtifactName(ex) == IF ex = "question" THEN "generated_questions" ELSE "latex_document"

\* progress messages published as working updates before the backend call
ProgressMessages(ex) ==
    IF ex = "question"
    THEN <<"Generating educational questions...">>
    ELSE <<"Parsing questions...", "Converting to LaTeX format...">>

\* ------------------------------------------------------------ the backends
\* str.split(sep)
RECURSIVE Split(_, _)
Split(s, sep) ==
    IF \E i \in 1..Len(s) : s[i] = sep
    THEN LET i == CHOOSE j \in 1..Len(s) :
                      s[j] = sep /\ \A k \in 1..(j - 1) : s[k] # sep
         IN <<SubSeq(s, 1, i - 1)>> \o Split(SubSeq(s, i + 1, Len(s)), sep)
    ELSE <<s>>

\* sep.join(lines)
RECURSIVE Join(_, _)
Join(lines, sep) ==
    IF Len(lines) = 0 THEN <<>>
    ELSE IF Len(lines) = 1 THEN lines[1]
    ELSE lines[1] \o <<sep>> \o Join(Tail(lines), sep)

\* mutant: blank lines are counted as questions
ParseQuestionsCountsBlank(text) ==
    LET lines == Split(Strip(text), "\n")
        stripped == [i \in 1..Len(lines) |-> Strip(lines[i])]
    IN [parsed_questions |-> SelectSeq(stripped, LAMBDA l : l # <<>>),
        count |-> Len(lines)]

\* node parse_questions: the metadata it writes
ParseQuestions(text) ==
    LET lines == Split(Strip(text), "\n")
        stripped == [i \in 1..Len(lines) |-> Strip(lines[i])]
        parsed == SelectSeq(stripped, LAMBDA l : l # <<>>)
    IN [parsed_questions |-> parsed, count |-> Len(parsed)]

\* the questions part of the prompt: chr(10).join(parsed)
Prompt(parsed) == Join(parsed, "\n")

\* the markers of a markdown code block: three backquotes, with or without
\* the language
LatexFence == "<fence>latex"

Fence == "<fence>"

\* s.split(tok)[1]: what follows the first tok
AfterFirst(s, tok) ==
    LET i == CHOOSE j \in 1..Len(s) : s[j] = tok /\ \A k \in 1..(j - 1) : s[k] # tok
    IN SubSeq(s, i + 1, Len(s))

\* s.split(tok)[0] for each tok of toks in turn: what precedes the first of them
UpTo(s, toks) ==
    IF \E i \in 1..Len(s) : s[i] \in toks
    THEN LET i == CHOOSE j \in 1..Len(s) :
                      s[j] \in toks /\ \A k \in 1..(j - 1) : s[k] \notin toks
         IN SubSeq(s, 1, i - 1)
    ELSE s

\* node convert_to_latex: the code taken out of the backend's response
CleanFences(text) ==
    IF \E i \in 1..Len(text) : text[i] = LatexFence
    THEN Strip(UpTo(AfterFirst(text, LatexFence), {LatexFence, Fence}))
    ELSE IF \E i \in 1..Len(text) : text[i] = Fence
    THEN Strip(UpTo(AfterFirst(text, Fence), {Fence}))
    ELSE text

\* format_output puts a comment header, which gives the number of
\* questions, in front of the LaTeX code
Header(count) == <<"%", ToString(count)>>

FormatOutput(latex, count) == Header(count) \o latex

\* the edges of the graph
EntryPoint == "parse_questions"

\* mutant: convert_to_latex is the last node
NextNodeSkipsFormat(node) ==
    CASE node = "parse_questions" -> "convert_to_latex"
      [] node = "convert_to_latex" -> "END"
      [] node = "format_output" -> "END"

NextNode(node) ==
    CASE node = "parse_questions" -> "convert_to_latex"
      [] node = "convert_to_latex" -> "format_output"
      [] node = "format_output" -> "END"

\* text handed back to execute when the backend call succeeds: the question
\* agent returns the backend's text, the LaTeX agent what its graph makes of it
BackendResult(ex, text, raw) ==
    IF ex = "question" THEN raw
    ELSE FormatOutput(CleanFences(raw), ParseQuestions(text).count)

\* ------------------------------------------------------------- validation
\* mutant: validation that forgets to strip the text
ValidateRequestNoStrip(text) == Len(text) = 0

\* a request whose text cannot be read: context.get_user_input() raises
Unreadable == <<"<get_user_input raises>">>

GetUserInputRaises(text) == text = Unreadable

\* mutant: validation lets the exception of get_user_input through
ValidateRequestUncaught(text) ==
    IF GetUserInputRaises(text) THEN FALSE
    ELSE Len(text) = 0 \/ Len(Strip(text)) = 0

\* _validate_request: TRUE when the request is invalid; an exception while
\* reading the user input is caught and reported as invalid
ValidateRequest(text) ==
    IF GetUserInputRaises(text) THEN TRUE
    ELSE Len(text) = 0 \/ Len(Strip(text)) = 0

\* ---------------------------------------------------------------- execute
ServerInit ==
    /\ pc = [r \in Reqs |-> "idle"]
    /\ req = [r \in Reqs |-> [executor |-> "question", text |-> <<>>, ref |-> None]]
    /\ task = [r \in Reqs |-> None]
    /\ result = [r \in Reqs |-> <<>>]
    /\ err = [r \in Reqs |-> "none"]
    /\ backendOut = [r \in Reqs |-> "none"]
    /\ backendCalls = [r \in Reqs |-> 0]
    /\ queue = [r \in Reqs |-> <<>>]
    /\ store = [t \in TaskIds |-> NoTask]
    /\ nextId = 1
    /\ cancelCount = 0
    /\ lastCancel = [task |-> None, state |-> "none", err |-> "none"]

\* mutant: the generic except clause re-raises the exception as it is
HandleExceptionUnwrapped(exc) == exc

\* mutant: the generic except clause logs the error and swallows it
HandleExceptionSwallowed(exc) == IF exc = "InvalidParamsError" THEN exc ELSE "none"

\* except ServerError: raise / except Exception: raise ServerError(InternalError)
HandleException(exc) == IF exc = "InvalidParamsError" THEN exc ELSE "InternalError"

\* execute raises when an error leaves the except clauses, else returns
Outcome(e) == IF e = "none" THEN "done" ELSE "raised"

\* events published when the except clauses handle an exception: none
ExceptionPublishes(t, ctx) == <<>>

\* execute up to its first suspension: validation, then task resolution
Execute(r, ex, text, ref) ==
    /\ pc[r] = "idle"
    /\ req' = [req EXCEPT ![r] = [executor |-> ex, text |-> text, ref |-> ref]]
    /\ IF ValidateRequest(text)
       THEN /\ pc' = [pc EXCEPT ![r] = Outcome(HandleException("InvalidParamsError"))]
            /\ err' = [err EXCEPT ![r] = HandleException("InvalidParamsError")]
            /\ UNCHANGED <<task, queue, store, nextId>>
       ELSE IF GetUserInputRaises(text)
       THEN /\ pc' = [pc EXCEPT ![r] = Outcome(HandleException("Exception"))]
            /\ err' = [err EXCEPT ![r] = HandleException("Exception")]
            /\ UNCHANGED <<task, queue, store, nextId>>
       ELSE IF ref = None
       THEN /\ task' = [task EXCEPT ![r] = nextId]
            /\ Publish(r, <<TaskEvent(nextId)>>)
            /\ nextId' = nextId + 1
            /\ pc' = [pc EXCEPT ![r] = "working"]
            /\ err' = err
       ELSE /\ task' = [task EXCEPT ![r] = ref]
            /\ pc' = [pc EXCEPT ![r] = "working"]
            /\ UNCHANGED <<err, queue, store, nextId>>
    /\ UNCHANGED <<result, backendOut, backendCalls, cancelCount, lastCancel>>
    /\ UNCHANGED <<clientVars, pipeVars, mainVars, graphVars>>

\* number of working updates call r has published so far
WorkingCount(r) == Len(SelectSeq(queue[r], LAMBDA e : e.state = "working"))

\* updater.update_status(TaskState.working, ...): one per progress message
UpdateStatusWorking(r) ==
    /\ pc[r] = "working"
    /\ LET msgs == ProgressMessages(req[r].executor)
           k == WorkingCount(r) + 1
       IN /\ Publish(r, <<WorkingEvent(task[r], store[task[r]].ctx, msgs[k])>>)
          /\ pc' = [pc EXCEPT ![r] = IF k = Len(msgs) THEN "backend" ELSE "working"]
    /\ UNCHANGED <<req, task, result, err, backendOut, backendCalls, nextId,
                   cancelCount, lastCancel>>
    /\ UNCHANGED <<clientVars, pipeVars, mainVars, graphVars>>

\* enqueue_event(task) raises for the task execute has just created: the
\* except clauses run and execute raises with nothing published
CreateTaskRaises(r, ex, text) ==
    /\ pc[r] = "idle"
    /\ ~ValidateRequest(text) /\ ~GetUserInputRaises(text)
    /\ req' = [req EXCEPT ![r] = [executor |-> ex, text |-> text, ref |-> None]]
    /\ err' = [err EXCEPT ![r] = HandleException("Exception")]
    /\ pc' = [pc EXCEPT ![r] = Outcome(HandleException("Exception"))]
    /\ UNCHANGED <<task, result, backendOut, backendCalls, queue, store, nextId,
                   cancelCount, lastCancel>>
    /\ UNCHANGED <<clientVars, pipeVars, mainVars, graphVars>>

\* the steps of execute that publish through the TaskUpdater
PublishingSteps == {"working", "artifact", "complete"}

\* update_status, add_artifact or complete raises: the except clauses run
\* and execute raises
PublishRaises(r) ==
    /\ pc[r] \in PublishingSteps
    /\ err' = [err EXCEPT ![r] = HandleException("Exception")]
    /\ Publish(r, ExceptionPublishes(task[r], store[task[r]].ctx))
    /\ pc' = [pc EXCEPT ![r] = Outcome(HandleException("Exception"))]
    /\ UNCHANGED <<req, task, result, backendOut, backendCalls, nextId,
                   cancelCount, lastCancel>>
    /\ UNCHANGED <<clientVars, pipeVars, mainVars, graphVars>>

\* mutant: execute never comes back from add_artifact
StepAfterHangs(p) ==
    CASE p = "backend" -> "artifact"
      [] p = "artifact" -> "hung"
      [] p = "complete" -> "done"

\* mutant: the task is completed before the artifact is added
StepAfterSwapped(p) ==
    CASE p = "backend" -> "complete"
      [] p = "complete" -> "artifact"
      [] p = "artifact" -> "done"

\* program order of the success path: backend call, add_artifact, complete
StepAfter(p) ==
    CASE p = "backend" -> "artifact"
      [] p = "artifact" -> "complete"
      [] p = "complete" -> "done"

\* the backend call returns text
BackendReturns(r, raw) ==
    /\ pc[r] = "backend"
    /\ backendCalls' = [backendCalls EXCEPT ![r] = @ + 1]
    /\ backendOut' = [backendOut EXCEPT ![r] = "ok"]
    /\ result' = [result EXCEPT ![r] = BackendResult(req[r].executor, req[r].text, raw)]
    /\ pc' = [pc EXCEPT ![r] = StepAfter("backend")]
    /\ UNCHANGED <<req, task, err, queue, store, nextId, cancelCount, lastCancel>>
    /\ UNCHANGED <<clientVars, pipeVars, mainVars, graphVars>>

\* the backend call raises: the except clauses run and execute raises
BackendRaises(r) ==
    /\ pc[r] = "backend"
    /\ backendCalls' = [backendCalls EXCEPT ![r] = @ + 1]
    /\ backendOut' = [backendOut EXCEPT ![r] = "error"]
    /\ err' = [err EXCEPT ![r] = HandleException("Exception")]
    /\ Publish(r, ExceptionPublishes(task[r], store[task[r]].ctx))
    /\ pc' = [pc EXCEPT ![r] = Outcome(HandleException("Exception"))]
    /\ UNCHANGED <<req, task, result, nextId, cancelCount, lastCancel>>
    /\ UNCHANGED <<clientVars, pipeVars, mainVars, graphVars>>

\* updater.add_artifact(...)
AddArtifact(r) ==
    /\ pc[r] = "artifact"
    /\ Publish(r, <<ArtifactEvent(task[r], store[task[r]].ctx, result[r],
                                  ArtifactName(req[r].executor))>>)
    /\ pc' = [pc EXCEPT ![r] = StepAfter("artifact")]
    /\ UNCHANGED <<req, task, result, err, backendOut, backendCalls, nextId,
                   cancelCount, lastCancel>>
    /\ UNCHANGED <<clientVars, pipeVars, mainVars, graphVars>>

\* updater.complete(), then execute returns
Complete(r) ==
    /\ pc[r] = "complete"
    /\ Publish(r, <<CompletedEvent(task[r], store[task[r]].ctx)>>)
    /\ pc' = [pc EXCEPT ![r] = StepAfter("complete")]
    /\ UNCHANGED <<req, task, result, err, backendOut, backendCalls, nextId,
                   cancelCount, lastCancel>>
    /\ UNCHANGED <<clientVars, pipeVars, mainVars, graphVars>>

\* ----------------------------------------------------------------- cancel
\* mutant: cancel marks the task canceled
CancelPublishesCanceled(ref) ==
    IF ref = None THEN <<>>
    ELSE <<[kind |-> "status", task |-> ref, ctx |-> store[ref].ctx,
            state |-> "canceled", text |-> <<>>, name |-> ""]>>

\* events a cancel call publishes for the task it names: none
CancelPublishes(ref) == <<>>

\* cancel: always raises ServerError(UnsupportedOperationError)
Cancel(ex, ref) ==
    /\ cancelCount < MaxCancel
    /\ cancelCount' = cancelCount + 1
    /\ lastCancel' = [task |-> ref, state |-> TaskStateOf(ref),
                      err |-> "UnsupportedOperationError"]
    /\ store' = LET out == CancelPublishes(ref)
                IN IF Len(out) = 0 THEN store ELSE ApplyEvent(store, out[1])
    /\ UNCHANGED <<pc, req, task, result, err, backendOut, backendCalls, queue,
                   nextId>>
    /\ UNCHANGED <<clientVars, pipeVars, mainVars, graphVars>>

\* ------------------------------------------------------------ specification
\* the calls are numbered in the order in which they start
InOrder(r) == IF r = 1 THEN TRUE ELSE pc[r - 1] # "idle"

Next ==
    \/ \E r \in Reqs, ex \in Executors, text \in Texts, ref \in {None} \cup ExistingTasks :
          InOrder(r) /\ Execute(r, ex, text, ref)
    \/ \E r \in Reqs : UpdateStatusWorking(r)
    \/ \E r \in Reqs, raw \in BackendTexts : BackendReturns(r, raw)
    \/ \E r \in Reqs : BackendRaises(r)
    \/ \E r \in Reqs : AddArtifact(r)
    \/ \E r \in Reqs : Complete(r)
    \/ \E ex \in Executors, ref \in {None} \cup ExistingTasks : Cancel(ex, ref)

\* the executors with their failures: a request whose text cannot be read,
\* and publications that raise
ExecuteNext ==
    \/ \E r \in Reqs, ex \in Executors, text \in Texts \cup {Unreadable},
          ref \in {None} \cup ExistingTasks :
          InOrder(r) /\ Execute(r, ex, text, ref)
    \/ \E r \in Reqs, ex \in Executors, text \in Texts :
          InOrder(r) /\ CreateTaskRaises(r, ex, text)
    \/ \E r \in Reqs : UpdateStatusWorking(r)
    \/ \E r \in Reqs, raw \in BackendTexts : BackendReturns(r, raw)
    \/ \E r \in Reqs : BackendRaises(r)
    \/ \E r \in Reqs : AddArtifact(r)
    \/ \E r \in Reqs : Complete(r)
    \/ \E r \in Reqs : PublishRaises(r)

\* the step a started call of execute takes next
Continue(r) ==
    \/ UpdateStatusWorking(r)
    \/ \E raw \in BackendTexts : BackendReturns(r, raw)
    \/ BackendRaises(r)
    \/ AddArtifact(r)
    \/ Complete(r)
    \/ PublishRaises(r)

\* =================================================================== client
\* A2ARemoteAgentTool.run

\* timeout: float = 120.0
DefaultTimeout == 120

Timeouts == {1, DefaultTimeout}

\* exceptions the transport and the SDK client can raise, by class, with the
\* classes each is an instance of
Raisable == {"httpx.ReadTimeout", "httpx.ConnectError", "A2AClientJSONError"}

ClassesOf(exc) ==
    CASE exc = "httpx.ReadTimeout" ->
             {"httpx.ReadTimeout", "httpx.TimeoutException", "httpx.HTTPError", "Exception"}
      [] exc = "httpx.ConnectError" ->
             {"httpx.ConnectError", "httpx.HTTPError", "Exception"}
      [] exc = "ValueError" -> {"ValueError", "Exception"}
      [] OTHER -> {exc, "Exception"}

IsInstance(exc, cls) == cls \in ClassesOf(exc)

\* part texts a response can carry in its artifacts and in its message
ArtifactTexts == {<<>>, <<"a">>}

MessageTexts == {<<>>, <<"b">>}

NoMessage == [present |-> FALSE, parts |-> <<>>]

\* response.root.result missing (an error response)
NoResult == [hasResult |-> FALSE, artifacts |-> <<>>, message |-> NoMessage]

Responses ==
    {NoResult} \cup
    [hasResult : {TRUE},
     artifacts : SeqsUpTo(SeqsUpTo(ArtifactTexts, MaxParts), MaxArtifacts),
     message : {NoMessage} \cup
               [present : {TRUE}, parts : SeqsUpTo(MessageTexts, MaxParts)]]

NoError == [msg |-> "none", timeout |-> 0, cause |-> "none"]

\* task_id: Optional[str] = None, context_id: Optional[str] = None
NoneArg == "<None>"

\* values a caller can pass as task_id: nothing, the empty string, or the id
\* of a task of the server (task t has the id ToString(t))
TaskIdArgs == {NoneArg, "", "1"}

ContextIdArgs == {NoneArg, "", "1"}

NoCall == [input_text |-> <<>>, timeout |-> DefaultTimeout,
           task_id |-> NoneArg, context_id |-> NoneArg]

ClientInit ==
    /\ cpc = "idle"
    /\ call = NoCall
    /\ fetches = 0
    /\ sent = <<>>
    /\ response = NoResult
    /\ raised = "none"
    /\ ret = <<>>
    /\ cerr = NoError
    /\ calls = 0
    /\ nextMsg = 1

\* mutant: the except clause for httpx.HTTPError comes first
ExceptClausesHttpFirst(exc, timeout) ==
    IF IsInstance(exc, "httpx.HTTPError")
    THEN [msg |-> "Network error", timeout |-> 0, cause |-> exc]
    ELSE IF IsInstance(exc, "httpx.TimeoutException")
    THEN [msg |-> "Request timeout", timeout |-> timeout, cause |-> exc]
    ELSE [msg |-> "A2A communication error", timeout |-> 0, cause |-> exc]

\* the except clauses of run, in order: the first one that matches handles
\* the exception and raises Exception(error_msg) from it
ExceptClauses(exc, timeout) ==
    IF IsInstance(exc, "httpx.TimeoutException")
    THEN [msg |-> "Request timeout", timeout |-> timeout, cause |-> exc]
    ELSE IF IsInstance(exc, "httpx.HTTPError")
    THEN [msg |-> "Network error", timeout |-> 0, cause |-> exc]
    ELSE [msg |-> "A2A communication error", timeout |-> 0, cause |-> exc]

\* mutant: an id is added to the message whenever the caller passed one
TruthyNotNone(x) == x # NoneArg

\* `if task_id:` an Optional[str] is true when it is neither None nor ""
Truthy(x) == x # NoneArg /\ x # ""

\* a payload entry that is set only under a condition
OptionalField(name, x) == IF Truthy(x) THEN name :> x ELSE <<>>

\* the message payload built by run
BuildMessage(c, id) ==
    [role |-> "user",
     parts |-> <<[kind |-> "text", text |-> c.input_text]>>,
     message_id |-> id]
    @@ OptionalField("task_id", c.task_id)
    @@ OptionalField("context_id", c.context_id)

\* text taken from the first part of the first artifact, "" if there is none
FromArtifacts(resp) ==
    IF resp.hasResult /\ Len(resp.artifacts) > 0 /\ Len(resp.artifacts[1]) > 0
    THEN resp.artifacts[1][1]
    ELSE <<>>

\* the fallback: while no text is found, the first part of the message
FromMessage(resp, result_text) ==
    IF resp.hasResult /\ result_text = <<>> /\ resp.message.present
       /\ Len(resp.message.parts) > 0
    THEN resp.message.parts[1]
    ELSE result_text

\* result_text as run extracts it from the response
ExtractResult(resp) == FromMessage(resp, FromArtifacts(resp))

\* mutant: run returns whatever was extracted
NoTextNever(result_text) == FALSE

\* if not result_text: raise ValueError(...)
NoText(result_text) == result_text = <<>>

\* mutant: the agent card of the first call is kept and used by later calls
CardFetchesCached(n) == IF n = 1 THEN 1 ELSE 0

\* agent card fetches made by the discovery step of the n-th run call
CardFetches(n) == 1

\* run is called with all its arguments
RunWith(text, timeout, task_id, context_id) ==
    /\ cpc \in {"idle", "returned", "failed"}
    /\ calls < MaxCalls
    /\ calls' = calls + 1
    /\ call' = [input_text |-> text, timeout |-> timeout,
                task_id |-> task_id, context_id |-> context_id]
    /\ cpc' = "discover"
    /\ fetches' = 0
    /\ sent' = <<>>
    /\ response' = NoResult
    /\ raised' = "none"
    /\ ret' = <<>>
    /\ cerr' = NoError
    /\ UNCHANGED nextMsg
    /\ UNCHANGED <<serverVars, pipeVars, mainVars, graphVars>>

\* run is called
Run(text, timeout) ==
    /\ cpc \in {"idle", "returned", "failed"}
    /\ calls < MaxCalls
    /\ calls' = calls + 1
    /\ call' = [input_text |-> text, timeout |-> timeout,
                task_id |-> NoneArg, context_id |-> NoneArg]
    /\ cpc' = "discover"
    /\ fetches' = 0
    /\ sent' = <<>>
    /\ response' = NoResult
    /\ raised' = "none"
    /\ ret' = <<>>
    /\ cerr' = NoError
    /\ UNCHANGED nextMsg
    /\ UNCHANGED <<serverVars, pipeVars, mainVars, graphVars>>

\* resolver.get_agent_card() returns the card; the message is built and
\* client.send_message(request) submits it
CardFetched ==
    /\ cpc = "discover"
    /\ fetches' = fetches + CardFetches(calls)
    /\ sent' = Append(sent, BuildMessage(call, nextMsg))
    /\ nextMsg' = nextMsg + 1
    /\ cpc' = "waiting"
    /\ UNCHANGED <<call, response, raised, ret, cerr, calls>>
    /\ UNCHANGED <<serverVars, pipeVars, mainVars, graphVars>>

\* resolver.get_agent_card() raises
CardFails(exc) ==
    /\ cpc = "discover"
    /\ fetches' = fetches + CardFetches(calls)
    /\ raised' = exc
    /\ cerr' = ExceptClauses(exc, call.timeout)
    /\ cpc' = "failed"
    /\ UNCHANGED <<call, sent, response, ret, calls, nextMsg>>
    /\ UNCHANGED <<serverVars, pipeVars, mainVars, graphVars>>

\* client.send_message(request) raises (timeout or transport failure)
SendFails(exc) ==
    /\ cpc = "waiting"
    /\ raised' = exc
    /\ cerr' = ExceptClauses(exc, call.timeout)
    /\ cpc' = "failed"
    /\ UNCHANGED <<call, fetches, sent, response, ret, calls, nextMsg>>
    /\ UNCHANGED <<serverVars, pipeVars, mainVars, graphVars>>

\* client.send_message(request) returns a response; the result is extracted
ResponseReceived(resp) ==
    /\ cpc = "waiting"
    /\ response' = resp
    /\ LET result_text == ExtractResult(resp)
       IN IF NoText(result_text)
          THEN /\ raised' = "ValueError"
               /\ cerr' = ExceptClauses("ValueError", call.timeout)
               /\ cpc' = "failed"
               /\ ret' = ret
          ELSE /\ ret' = result_text
               /\ cpc' = "returned"
               /\ UNCHANGED <<raised, cerr>>
    /\ UNCHANGED <<call, fetches, sent, calls, nextMsg>>
    /\ UNCHANGED <<serverVars, pipeVars, mainVars, graphVars>>

\* ============================================================= orchestrator
\* run_workflow: stage 1 (question generator), then stage 2 (LaTeX converter)

\* the pipeline runs the model follows; the two may overlap
Runs == {1, 2}

Stages == {1, 2}

\* agent_name of the tool each stage calls
AgentName(s) == IF s = 1 THEN "generate_questions" ELSE "convert_to_latex"

\* the executor behind each stage's endpoint
StageExecutor(s) == IF s = 1 THEN "question" ELSE "latex"

\* mutant: the tool is run with the id of an earlier task
NewInvokeContinuing(s, text) ==
    [agent_name |-> AgentName(s), input_text |-> text, timeout |-> DefaultTimeout,
     task_id |-> "1", context_id |-> "1",
     sent |-> <<>>, outcome |-> "pending", ret |-> <<>>, err |-> NoError, cancels |-> 0]

\* one tool.run call: its tool, its arguments, the messages it submitted, how
\* it ended, the text it returned, the error it raised
NewInvoke(s, text) ==
    [agent_name |-> AgentName(s), input_text |-> text, timeout |-> DefaultTimeout,
     task_id |-> NoneArg, context_id |-> NoneArg,
     sent |-> <<>>, outcome |-> "pending", ret |-> <<>>, err |-> NoError, cancels |-> 0]

PipelineInit ==
    /\ wpc = [w \in Runs |-> "idle"]
    /\ topic = [w \in Runs |-> <<>>]
    /\ invokes = [w \in Runs |-> <<>>]
    /\ questions = [w \in Runs |-> <<>>]
    /\ latex_code = [w \in Runs |-> <<>>]
    /\ wret = [w \in Runs |-> <<>>]
    /\ werr = [w \in Runs |-> NoError]
    /\ uuid = 1

\* the stage run w is in: the number of tool.run calls it has made
StageOf(w) == Len(invokes[w])

\* mutant: every message gets the same id
MessageIdFixed(n) == 1

\* uuid4().hex: the n-th id drawn differs from every other
MessageId(n) == n

\* mutant: stage 2 is handed the questions with surrounding whitespace removed
StageInputStripped(s, t, q) == IF s = 1 THEN t ELSE Strip(q)

\* the text each stage's tool is run with: the topic, then the questions
StageInput(s, t, q) == IF s = 1 THEN t ELSE q

\* mutant: a failure of stage 1 is logged and stage 2 is run all the same
AfterFailureGoesOn(s) == IF s = 1 THEN 2 ELSE 0

\* mutant: when stage 2 fails, the run starts over from stage 1
AfterFailureStartsOver(s) == IF s = 2 THEN 1 ELSE 0

\* the stage run after stage s failed: none, the except clause re-raises
AfterFailure(s) == 0

\* the stage run after stage s returned: stage 2 after stage 1, then none
AfterSuccess(s) == IF s = 1 THEN 2 ELSE 0

\* except Exception as e: logger.error(...); raise
ReRaise(s, e) == e

\* run_workflow is called: the tools are created and stage 1's tool is run
RunWorkflow(w, t) ==
    /\ wpc[w] = "idle"
    /\ topic' = [topic EXCEPT ![w] = t]
    /\ invokes' = [invokes EXCEPT ![w] = <<NewInvoke(1, StageInput(1, t, <<>>))>>]
    /\ wpc' = [wpc EXCEPT ![w] = "discover"]
    /\ UNCHANGED <<questions, latex_code, wret, werr, uuid>>
    /\ UNCHANGED <<serverVars, clientVars, mainVars, graphVars>>

\* the current tool.run call fetched the agent card, built its message and
\* submitted it
Discovered(w) ==
    /\ wpc[w] = "discover"
    /\ invokes' = [invokes EXCEPT ![w][StageOf(w)].sent =
                      Append(@, BuildMessage(invokes[w][StageOf(w)], MessageId(uuid)))]
    /\ uuid' = uuid + 1
    /\ wpc' = [wpc EXCEPT ![w] = "waiting"]
    /\ UNCHANGED <<topic, questions, latex_code, wret, werr>>
    /\ UNCHANGED <<serverVars, clientVars, mainVars, graphVars>>

\* mutant: on a timeout the client asks the server to cancel the task
CancelRequestsOnTimeout(exc) == IF IsInstance(exc, "httpx.TimeoutException") THEN 1 ELSE 0

\* cancel requests the except clauses of run send for exception exc: none
CancelRequests(exc) == 0

\* the current tool.run call raises exc inside its try block: its except
\* clauses raise, and so does the stage's except clause in run_workflow
StageRaises(w, exc) ==
    LET s == StageOf(w)
        e == ExceptClauses(exc, invokes[w][s].timeout)
        failed == [invokes[w] EXCEPT ![s].outcome = "raised", ![s].err = e,
                                     ![s].cancels = CancelRequests(exc)]
        nxt == AfterFailure(s)
    IN IF nxt = 0
       THEN /\ invokes' = [invokes EXCEPT ![w] = failed]
            /\ werr' = [werr EXCEPT ![w] = ReRaise(s, e)]
            /\ wpc' = [wpc EXCEPT ![w] = "raised"]
            /\ UNCHANGED <<topic, questions, latex_code, wret, uuid>>
       ELSE /\ invokes' = [invokes EXCEPT ![w] =
                             Append(failed, NewInvoke(nxt, StageInput(nxt, topic[w], questions[w])))]
            /\ wpc' = [wpc EXCEPT ![w] = "discover"]
            /\ UNCHANGED <<topic, questions, latex_code, wret, werr, uuid>>

\* the current tool.run call returns text: stage 1's text becomes questions
\* and stage 2's tool is run with it, stage 2's text is returned
StageReturns(w, text) ==
    LET s == StageOf(w)
        returned == [invokes[w] EXCEPT ![s].outcome = "returned", ![s].ret = text]
        nxt == AfterSuccess(s)
    IN IF s = 1
       THEN /\ questions' = [questions EXCEPT ![w] = text]
            /\ invokes' = [invokes EXCEPT ![w] =
                             Append(returned, NewInvoke(nxt, StageInput(nxt, topic[w], text)))]
            /\ wpc' = [wpc EXCEPT ![w] = "discover"]
            /\ UNCHANGED <<topic, latex_code, wret, werr, uuid>>
       ELSE /\ latex_code' = [latex_code EXCEPT ![w] = text]
            /\ wret' = [wret EXCEPT ![w] = text]
            /\ invokes' = [invokes EXCEPT ![w] = returned]
            /\ wpc' = [wpc EXCEPT ![w] = "returned"]
            /\ UNCHANGED <<topic, questions, werr, uuid>>

\* resolver.get_agent_card() raises in the current tool.run call
DiscoveryFails(w, exc) ==
    /\ wpc[w] = "discover"
    /\ StageRaises(w, exc)
    /\ UNCHANGED <<serverVars, clientVars, mainVars, graphVars>>

\* client.send_message(request) raises in the current tool.run call
SubmitFails(w, exc) ==
    /\ wpc[w] = "waiting"
    /\ StageRaises(w, exc)
    /\ UNCHANGED <<serverVars, clientVars, mainVars, graphVars>>

\* the current tool.run call receives a response and extracts its result
Responded(w, resp) ==
    /\ wpc[w] = "waiting"
    /\ LET result_text == ExtractResult(resp)
       IN IF NoText(result_text)
          THEN StageRaises(w, "ValueError")
          ELSE StageReturns(w, result_text)
    /\ UNCHANGED <<serverVars, clientVars, mainVars, graphVars>>

\* what send_message hands back for execute call r: an error response when
\* execute raised, else the task as the store holds it
ServerResponse(r) ==
    IF pc[r] = "raised" THEN NoResult
    ELSE [hasResult |-> TRUE,
          artifacts |-> [i \in 1..Len(store[task[r]].artifacts) |->
                            store[task[r]].artifacts[i].parts],
          message |-> NoMessage]

\* context.current_task for a message: the stored task its task_id names, if
\* it has one
MessageRef(msg) ==
    IF "task_id" \in DOMAIN msg
    THEN LET named == {t \in ExistingTasks : ToString(t) = msg.task_id}
         IN IF named = {} THEN None ELSE CHOOSE t \in named : TRUE
    ELSE None

\* the message run w submitted for stage s reaches the stage's executor as
\* execute call r
Deliver(w, s, r) ==
    /\ wpc[w] = "waiting"
    /\ StageOf(w) = s
    /\ Execute(r, StageExecutor(s), invokes[w][s].sent[1].parts[1].text,
               MessageRef(invokes[w][s].sent[1]))

\* execute call r is over and its response reaches run w, waiting in stage s
Reply(w, s, r) ==
    /\ StageOf(w) = s
    /\ pc[r] \in {"done", "raised"}
    /\ Responded(w, ServerResponse(r))

\* texts the question backend hands back in the pipeline specifications
QuestionTexts == {<<>>, <<"b">>, <<"c", " ">>}

\* answers of a LaTeX agent that is not followed step by step
LatexAnswers ==
    {NoResult} \cup
    {[hasResult |-> TRUE, artifacts |-> <<<<x>>>>, message |-> NoMessage] :
        x \in {<<"d">>, <<"e">>}}

\* the document the LaTeX backend is asked for: it opens with the document
\* class and closes with the end of the document environment
OpeningMarker == "\\documentclass"

ClosingMarker == "\\end{document}"

LatexDocument == <<OpeningMarker, ClosingMarker>>

\* stage 2 of run w is answered
LatexAnswered(w, resp) ==
    /\ StageOf(w) = 2
    /\ Responded(w, resp)

\* ------------------------------------------------------- the entry points
EntryPoints == {"client", "run_all"}

\* the parsed command line: the topic and whether --save names a file
MainArgs == [entry : EntryPoints, topic : Texts, save : BOOLEAN]

NoFile == [opened |-> FALSE, contents |-> <<>>]

\* run_all: the agent processes, crewai_question_agent and
\* langgraph_latex_agent, in the order in which they are started and awaited
Agents == {1, 2}

MainInit ==
    /\ mpc = "idle"
    /\ margs = [entry |-> "client", topic |-> <<>>, save |-> FALSE]
    /\ caught = "none"
    /\ outfile = NoFile
    /\ exit_code = <<>>
    /\ procs = [i \in Agents |-> "not_started"]
    /\ processes = <<>>
    /\ ready = {}
    /\ cleanups = 0

\* mutant: a user interrupt ends the process like any other error
ExitCodeInterruptAsError(ending) ==
    CASE ending = "success" -> 0
      [] ending = "KeyboardInterrupt" -> 1
      [] ending = "Exception" -> 1
      [] ending = "no_api_key" -> 1

\* the code the process ends with: main returns, or one of its sys.exit calls
ExitCode(ending) ==
    CASE ending = "success" -> 0
      [] ending = "KeyboardInterrupt" -> 130
      [] ending = "Exception" -> 1
      [] ending = "no_api_key" -> 1

\* cleanup_processes(list): every listed process is sent terminate() and
\* awaited; one that does not stop in time is killed; a process that has
\* stopped already stays as it is
CleanupProcesses(ps, list, killed) ==
    [i \in Agents |->
        IF (\E k \in 1..Len(list) : list[k] = i) /\ ps[i] = "running"
        THEN (IF i \in killed THEN "killed" ELSE "terminated")
        ELSE ps[i]]

\* calls of cleanup_processes on the way out of run_all's main: one in the
\* except clause that ran, one in the finally clause when the list is not empty
HandlerCleanups(ending) ==
    IF margs.entry = "run_all" /\ ending \in {"KeyboardInterrupt", "Exception"}
    THEN 1 ELSE 0

FinallyCleanups(ending) ==
    IF margs.entry = "run_all" /\ ending # "no_api_key" /\ processes # <<>>
    THEN 1 ELSE 0

\* the process ends
Exits(ending) ==
    /\ mpc' = "exited"
    /\ exit_code' = Append(exit_code, ExitCode(ending))
    /\ cleanups' = cleanups + HandlerCleanups(ending) + FinallyCleanups(ending)
    /\ IF HandlerCleanups(ending) + FinallyCleanups(ending) = 0
       THEN procs' = procs
       ELSE \E killed \in SUBSET Agents :
               LET once == CleanupProcesses(procs, processes, killed)
               IN procs' = IF HandlerCleanups(ending) + FinallyCleanups(ending) = 2
                           THEN CleanupProcesses(once, processes, {})
                           ELSE once
    /\ UNCHANGED <<processes, ready>>

\* main is entered with parsed arguments a; without an API key it ends at once
Main(a, has_key) ==
    /\ mpc = "idle"
    /\ margs' = a
    /\ IF ~has_key
       THEN Exits("no_api_key")
       ELSE /\ mpc' = (IF a.entry = "run_all" THEN "popen" ELSE "running")
            /\ UNCHANGED <<exit_code, procs, processes, ready, cleanups>>
    /\ UNCHANGED <<caught, outfile>>
    /\ UNCHANGED <<serverVars, clientVars, pipeVars, graphVars>>

\* run_all: start_agent_process creates the next agent process
StartAgentProcess ==
    /\ mpc = "popen"
    /\ procs' = [procs EXCEPT ![Len(processes) + 1] = "running"]
    /\ mpc' = "append"
    /\ UNCHANGED <<margs, caught, outfile, exit_code, processes, ready, cleanups>>
    /\ UNCHANGED <<serverVars, clientVars, pipeVars, graphVars>>

\* run_all: processes.append(process); after the second one, wait_for_agents
AppendProcess ==
    /\ mpc = "append"
    /\ processes' = Append(processes, Len(processes) + 1)
    /\ mpc' = (IF Len(processes) + 1 = Cardinality(Agents) THEN "waiting" ELSE "popen")
    /\ UNCHANGED <<margs, caught, outfile, exit_code, procs, ready, cleanups>>
    /\ UNCHANGED <<serverVars, clientVars, pipeVars, graphVars>>

\* mutant: wait_for_agents returns as soon as the first agent has answered
AfterAnswerFirstOnly(i) == "running"

\* wait_for_agents goes on to the next agent, and returns after the last
AfterAnswer(i) == IF i = Cardinality(Agents) THEN "running" ELSE "waiting"

\* run_all: the agent wait_for_agents is polling answers with status 200
AgentAnswers ==
    /\ mpc = "waiting"
    /\ LET i == Cardinality(ready) + 1
       IN /\ procs[i] = "running"
          /\ ready' = ready \cup {i}
          /\ mpc' = AfterAnswer(i)
    /\ UNCHANGED <<margs, caught, outfile, exit_code, procs, processes, cleanups>>
    /\ UNCHANGED <<serverVars, clientVars, pipeVars, graphVars>>

\* run_all: the agent being polled has not answered when the timeout is
\* over: wait_for_agents raises TimeoutError
AgentsNotReady ==
    /\ mpc = "waiting"
    /\ caught' = "Exception"
    /\ Exits("Exception")
    /\ UNCHANGED <<margs, outfile>>
    /\ UNCHANGED <<serverVars, clientVars, pipeVars, graphVars>>

\* asyncio.run(run_workflow(...)) returned the LaTeX code
WorkflowReturned ==
    /\ mpc = "running"
    /\ wpc[1] = "returned"
    /\ mpc' = (IF margs.save THEN "saving" ELSE "finishing")
    /\ UNCHANGED <<margs, caught, outfile, exit_code, procs, processes, ready, cleanups>>
    /\ UNCHANGED <<serverVars, clientVars, pipeVars, graphVars>>

\* asyncio.run(run_workflow(...)) raised
WorkflowRaised ==
    /\ mpc = "running"
    /\ wpc[1] = "raised"
    /\ caught' = "Exception"
    /\ Exits("Exception")
    /\ UNCHANGED <<margs, outfile>>
    /\ UNCHANGED <<serverVars, clientVars, pipeVars, graphVars>>

\* what happens to `with open(args.save, 'w') as f: f.write(latex_code)`
SaveOutcomes == {"saved", "open_raises", "write_raises"}

Save(outcome) ==
    /\ mpc = "saving"
    /\ CASE outcome = "saved" ->
              /\ outfile' = [opened |-> TRUE, contents |-> wret[1]]
              /\ mpc' = "finishing"
              /\ UNCHANGED <<caught, exit_code, procs, processes, ready, cleanups>>
         [] outcome = "open_raises" ->
              /\ caught' = "Exception"
              /\ Exits("Exception")
              /\ UNCHANGED outfile
         [] outcome = "write_raises" ->
              /\ outfile' = [opened |-> TRUE, contents |-> <<>>]
              /\ caught' = "Exception"
              /\ Exits("Exception")
    /\ UNCHANGED margs
    /\ UNCHANGED <<serverVars, clientVars, pipeVars, graphVars>>

\* the closing messages are printed and main returns
MainReturns ==
    /\ mpc = "finishing"
    /\ Exits("success")
    /\ UNCHANGED <<margs, caught, outfile>>
    /\ UNCHANGED <<serverVars, clientVars, pipeVars, graphVars>>

\* the user interrupts the process anywhere inside main's try block
KeyboardInterrupt ==
    /\ mpc \in {"popen", "append", "waiting", "running", "saving", "finishing"}
    /\ caught' = "KeyboardInterrupt"
    /\ Exits("KeyboardInterrupt")
    /\ UNCHANGED <<margs, outfile>>
    /\ UNCHANGED <<serverVars, clientVars, pipeVars, graphVars>>

\* ------------------------------------------------- the LaTeX agent's graph
GraphChars == {"a", " ", "\n"}

\* questions texts handed to convert_to_latex
QuestionInputs == SeqsUpTo(GraphChars, MaxQuestions)

\* responses of the backend: the document alone, or in a markdown code block
LatexResponses ==
    {LatexDocument,
     <<LatexFence, "\n">> \o LatexDocument \o <<"\n", Fence>>,
     <<Fence, "\n">> \o LatexDocument \o <<"\n", Fence, " ">>,
     <<"a", LatexFence>> \o LatexDocument \o <<Fence, "a">>,
     <<>>}

NoMetadata == [parsed_questions |-> <<>>, count |-> 0]

GraphInit ==
    /\ gpc = "idle"
    /\ gstate = [questions |-> <<>>, latex_code |-> <<>>, metadata |-> NoMetadata]
    /\ visited = <<>>
    /\ prompts = <<>>
    /\ gret = <<>>

\* convert_to_latex(questions): the initial state is built and the graph is
\* entered
ConvertToLatex(text) ==
    /\ gpc = "idle"
    /\ gstate' = [questions |-> text, latex_code |-> <<>>, metadata |-> NoMetadata]
    /\ gpc' = EntryPoint
    /\ UNCHANGED <<visited, prompts, gret>>
    /\ UNCHANGED <<serverVars, clientVars, pipeVars, mainVars>>

ParseQuestionsNode ==
    /\ gpc = "parse_questions"
    /\ LET update == ParseQuestions(gstate.questions)
       IN /\ gstate' = [gstate EXCEPT !.metadata = update]
          /\ visited' = Append(visited, [node |-> gpc, wrote |-> update])
    /\ gpc' = NextNode(gpc)
    /\ UNCHANGED <<prompts, gret>>
    /\ UNCHANGED <<serverVars, clientVars, pipeVars, mainVars>>

\* node convert_to_latex, the backend answering the prompt
ConvertNodeReturns(reply) ==
    /\ gpc = "convert_to_latex"
    /\ prompts' = Append(prompts, Prompt(gstate.metadata.parsed_questions))
    /\ LET update == CleanFences(reply)
       IN /\ gstate' = [gstate EXCEPT !.latex_code = update]
          /\ visited' = Append(visited, [node |-> gpc, wrote |-> update])
    /\ gpc' = NextNode(gpc)
    /\ UNCHANGED gret
    /\ UNCHANGED <<serverVars, clientVars, pipeVars, mainVars>>

\* node convert_to_latex, the backend call raising: graph.invoke raises and
\* so does convert_to_latex
ConvertNodeRaises ==
    /\ gpc = "convert_to_latex"
    /\ prompts' = Append(prompts, Prompt(gstate.metadata.parsed_questions))
    /\ visited' = Append(visited, [node |-> gpc, wrote |-> <<>>])
    /\ gpc' = "raised"
    /\ UNCHANGED <<gstate, gret>>
    /\ UNCHANGED <<serverVars, clientVars, pipeVars, mainVars>>

FormatOutputNode ==
    /\ gpc = "format_output"
    /\ LET update == FormatOutput(gstate.latex_code, gstate.metadata.count)
       IN /\ gstate' = [gstate EXCEPT !.latex_code = update]
          /\ visited' = Append(visited, [node |-> gpc, wrote |-> update])
    /\ gpc' = NextNode(gpc)
    /\ UNCHANGED <<prompts, gret>>
    /\ UNCHANGED <<serverVars, clientVars, pipeVars, mainVars>>

\* the graph reached END: convert_to_latex returns final_state["latex_code"]
GraphReturns ==
    /\ gpc = "END"
    /\ gret' = gstate.latex_code
    /\ gpc' = "returned"
    /\ UNCHANGED <<gstate, visited, prompts>>
    /\ UNCHANGED <<serverVars, clientVars, pipeVars, mainVars>>

Init == ServerInit /\ ClientInit /\ PipelineInit /\ MainInit /\ GraphInit

\* the server: both executors handling execute and cancel calls
Spec == Init /\ [][Next]_vars

ExecuteSpec == Init /\ [][ExecuteNext]_vars

\* the backend eventually returns or fails and no publication blocks for
\* ever: a started call keeps taking its next step
ExecuteLiveSpec == ExecuteSpec /\ \A r \in Reqs : WF_vars(Continue(r))

ClientNext ==
    \/ \E text \in Texts, timeout \in Timeouts : Run(text, timeout)
    \/ CardFetched
    \/ \E exc \in Raisable : CardFails(exc)
    \/ \E exc \in Raisable : SendFails(exc)
    \/ \E resp \in Responses : ResponseReceived(resp)

\* the client: run calls against an agent whose answers are arbitrary
ClientSpec == Init /\ [][ClientNext]_vars

\* the client called with every combination of its optional arguments
MessageNext ==
    \/ \E text \in Texts, task_id \in TaskIdArgs, context_id \in ContextIdArgs :
          RunWith(text, DefaultTimeout, task_id, context_id)
    \/ CardFetched
    \/ \E exc \in Raisable : CardFails(exc)
    \/ \E exc \in Raisable : SendFails(exc)
    \/ \E resp \in LatexAnswers : ResponseReceived(resp)

MessageSpec == Init /\ [][MessageNext]_vars

\* two pipeline runs side by side: stage 1 of run w is served by the question
\* executor as execute call w, stage 2 by a LaTeX agent whose answers are
\* arbitrary
PipelineNext ==
    \/ \E w \in Runs, t \in Texts : RunWorkflow(w, t)
    \/ \E w \in Runs : Discovered(w)
    \/ \E w \in Runs, exc \in Raisable : DiscoveryFails(w, exc)
    \/ \E w \in Runs, exc \in Raisable : SubmitFails(w, exc)
    \/ \E w \in Runs : Deliver(w, 1, w)
    \/ \E r \in Reqs : UpdateStatusWorking(r)
    \/ \E r \in Reqs, raw \in QuestionTexts : BackendReturns(r, raw)
    \/ \E r \in Reqs : BackendRaises(r)
    \/ \E r \in Reqs : AddArtifact(r)
    \/ \E r \in Reqs : Complete(r)
    \/ \E w \in Runs : Reply(w, 1, w)
    \/ \E w \in Runs, resp \in LatexAnswers : LatexAnswered(w, resp)

PipelineSpec == Init /\ [][PipelineNext]_vars

\* one pipeline run end to end: stage s is served by the stage's executor as
\* execute call s
EndToEndNext ==
    \/ \E t \in Texts : RunWorkflow(1, t)
    \/ Discovered(1)
    \/ \E exc \in Raisable : DiscoveryFails(1, exc)
    \/ \E exc \in Raisable : SubmitFails(1, exc)
    \/ \E s \in Stages : Deliver(1, s, s)
    \/ \E r \in Reqs : UpdateStatusWorking(r)
    \/ \E r \in Reqs, raw \in QuestionTexts \cup {<<" ">>} : BackendReturns(r, raw)
    \/ BackendReturns(2, LatexDocument)
    \/ \E r \in Reqs : BackendRaises(r)
    \/ \E r \in Reqs : AddArtifact(r)
    \/ \E r \in Reqs : Complete(r)
    \/ \E s \in Stages : Reply(1, s, s)

EndToEndSpec == Init /\ [][EndToEndNext]_vars

\* the step run 1 takes next once its remote call has responded or timed out
Resume ==
    \/ Discovered(1)
    \/ \E exc \in Raisable : DiscoveryFails(1, exc)
    \/ \E exc \in Raisable : SubmitFails(1, exc)
    \/ \E s \in Stages : Reply(1, s, s)

\* each remote call of the run either responds or times out
EndToEndLiveSpec == EndToEndSpec /\ WF_vars(Resume)

\* one call of the LaTeX agent's convert_to_latex
GraphNext ==
    \/ \E text \in QuestionInputs : ConvertToLatex(text)
    \/ ParseQuestionsNode
    \/ \E reply \in LatexResponses : ConvertNodeReturns(reply)
    \/ ConvertNodeRaises
    \/ FormatOutputNode
    \/ GraphReturns

GraphSpec == Init /\ [][GraphNext]_vars

\* an entry point running the pipeline: run_workflow is run 1 and advances
\* only while main is inside asyncio.run
MainNext ==
    \/ \E a \in MainArgs, has_key \in BOOLEAN : Main(a, has_key)
    \/ StartAgentProcess
    \/ AppendProcess
    \/ AgentAnswers
    \/ AgentsNotReady
    \/ mpc = "running" /\ RunWorkflow(1, margs.topic)
    \/ mpc = "running" /\ Discovered(1)
    \/ \E exc \in Raisable : mpc = "running" /\ DiscoveryFails(1, exc)
    \/ \E exc \in Raisable : mpc = "running" /\ SubmitFails(1, exc)
    \/ \E s \in Stages : Deliver(1, s, s)
    \/ \E r \in Reqs : UpdateStatusWorking(r)
    \/ \E r \in Reqs, raw \in QuestionTexts : BackendReturns(r, raw)
    \/ \E r \in Reqs : BackendRaises(r)
    \/ \E r \in Reqs : AddArtifact(r)
    \/ \E r \in Reqs : Complete(r)
    \/ \E s \in Stages : mpc = "running" /\ Reply(1, s, s)
    \/ WorkflowReturned
    \/ WorkflowRaised
    \/ \E outcome \in SaveOutcomes : Save(outcome)
    \/ MainReturns
    \/ KeyboardInterrupt

MainSpec == Init /\ [][MainNext]_vars

\* ================================================================== claims

\* a text with no character other than whitespace (the empty text included)
Blank(text) == \A i \in 1..Len(text) : IsSpace(text[i])

Started(r) == pc[r] # "idle"

Finished(r) == pc[r] \in {"done", "raised"}

KindsOf(q) == [i \in 1..Len(q) |-> IF q[i].kind = "status" THEN q[i].state ELSE q[i].kind]

CountKind(q, k) == Len(SelectSeq(KindsOf(q), LAMBDA x : x = k))

\* C1: a call whose user text is empty or whitespace-only raises the
\* invalid-params error, creates no task, publishes no event and never calls
\* the backend; the tasks in the store are exactly those created by calls
\* with non-blank text that referenced no task.
C1_BlankInputRejected ==
    /\ \A r \in Reqs :
          (Started(r) /\ Blank(req[r].text)) =>
              /\ pc[r] = "raised"
              /\ err[r] = "InvalidParamsError"
              /\ task[r] = None
              /\ queue[r] = <<>>
              /\ backendCalls[r] = 0
    /\ Cardinality(ExistingTasks) =
          Cardinality({r \in Reqs : Started(r) /\ ~Blank(req[r].text) /\ req[r].ref = None})

C1_Witness ==
    \E r, q \in Reqs :
        /\ pc[r] = "raised" /\ Len(req[r].text) > 0 /\ Blank(req[r].text)
        /\ pc[q] = "done"

\* C2 (as claimed): every finished call with non-blank text has exactly one
\* task (the one it created, or the one it continues), and either it raised
\* or that task is completed with exactly one artifact holding exactly one
\* non-empty text.
C2_OneTaskCompletedOrRaised ==
    \A r \in Reqs :
        (Finished(r) /\ ~Blank(req[r].text)) =>
            /\ task[r] # None
            /\ CountKind(queue[r], "task") <= 1
            /\ \A i \in 1..Len(queue[r]) : queue[r][i].task = task[r]
            /\ \/ pc[r] = "raised" /\ err[r] # "none"
               \/ /\ store[task[r]].state = "completed"
                  /\ Len(store[task[r]].artifacts) = 1
                  /\ Len(store[task[r]].artifacts[1].parts) = 1
                  /\ store[task[r]].artifacts[1].parts[1] # <<>>

\* C3 (as claimed): once a task is completed or failed, no later step
\* changes its state.
C3_TerminalIsFinal ==
    [][\A t \in TaskIds :
          store[t].state \in {"completed", "failed"} => store'[t].state = store[t].state]_vars

\* C4 (as claimed): after the backend has raised in a call, that call's task
\* is in state failed and the call has raised.
C4_BackendErrorFailsTask ==
    \A r \in Reqs :
        backendOut[r] = "error" =>
            pc[r] = "raised" /\ err[r] # "none" /\ store[task[r]].state = "failed"

\* C5: when the backend raises, execute raises the internal error: it does
\* not return, and it has published neither an artifact nor completed.
C5_BackendErrorPropagates ==
    \A r \in Reqs :
        backendOut[r] = "error" =>
            /\ pc[r] = "raised"
            /\ err[r] = "InternalError"
            /\ CountKind(queue[r], "artifact") = 0
            /\ CountKind(queue[r], "completed") = 0

C5_Witness ==
    \E r \in Reqs :
        /\ backendOut[r] = "error" /\ req[r].executor = "latex"
        /\ CountKind(queue[r], "working") = 2

\* position in program order of each kind of publication
Rank(k) ==
    CASE k = "task" -> 1
      [] k = "submitted" -> 1
      [] k = "working" -> 2
      [] k = "artifact" -> 3
      [] k = "completed" -> 4
      [] OTHER -> 5

\* C6: the events a call publishes are in program order at every moment
\* (task creation, then the working updates, then the artifact, then
\* completed), all for the call's task; a call that returned has published
\* one task event exactly when it referenced no task, at least one working
\* update, exactly one artifact and exactly one completed.
C6_ProgramOrder ==
    \A r \in Reqs :
        LET q == queue[r]
            k == KindsOf(q)
        IN /\ \A i, j \in 1..Len(q) : i < j => Rank(k[i]) <= Rank(k[j])
           /\ \A i, j \in 1..Len(q) :
                 (i < j /\ Rank(k[i]) = Rank(k[j])) => k[i] = "working"
           /\ \A i \in 1..Len(q) : q[i].task = task[r]
           /\ pc[r] = "done" =>
                 /\ CountKind(q, "task") = (IF req[r].ref = None THEN 1 ELSE 0)
                 /\ CountKind(q, "working") >= 1
                 /\ CountKind(q, "artifact") = 1
                 /\ CountKind(q, "completed") = 1
                 /\ k[Len(q)] = "completed"

C6_Witness ==
    \E r \in Reqs :
        /\ pc[r] = "done" /\ req[r].ref = None /\ req[r].executor = "latex"
        /\ KindsOf(queue[r]) = <<"task", "working", "working", "artifact", "completed">>

\* C7: every cancel call ends with the unsupported-operation error and
\* changes nothing: no event is published, no task changes, no call moves.
C7_CancelRejected ==
    [][cancelCount' # cancelCount =>
          /\ lastCancel'.err = "UnsupportedOperationError"
          /\ store' = store
          /\ queue' = queue
          /\ pc' = pc /\ err' = err /\ task' = task]_vars

C7_Witness ==
    /\ cancelCount = MaxCancel
    /\ lastCancel.task # None
    /\ lastCancel.state = "completed"
    /\ lastCancel.err = "UnsupportedOperationError"
    /\ store[lastCancel.task].state = "completed"

\* a response has been received and handled by the current call
Answered == cpc \in {"returned", "failed"} /\ raised \in {"none", "ValueError"}

\* the text the stated precedence selects: the first part of the first
\* artifact whenever the artifact list is non-empty, else the first part of
\* the message, else nothing
ClaimedText(resp) ==
    IF ~resp.hasResult THEN <<>>
    ELSE IF Len(resp.artifacts) > 0
    THEN (IF Len(resp.artifacts[1]) > 0 THEN resp.artifacts[1][1] ELSE <<>>)
    ELSE IF resp.message.present /\ Len(resp.message.parts) > 0
    THEN resp.message.parts[1]
    ELSE <<>>

\* C8 (as claimed): the text run returns is the first artifact's first part
\* whenever the artifact list is non-empty (the message is not consulted),
\* else the message's first part; with neither, the call fails.
C8_ExtractionPrecedence ==
    Answered =>
        /\ cpc = "returned" => ret = ClaimedText(response)
        /\ ClaimedText(response) = <<>> => cpc = "failed"

\* no part of the response, in any artifact or in the message, has text
NoUsableText(resp) ==
    /\ \A i \in 1..Len(resp.artifacts) :
          \A j \in 1..Len(resp.artifacts[i]) : resp.artifacts[i][j] = <<>>
    /\ \A j \in 1..Len(resp.message.parts) : resp.message.parts[j] = <<>>

SubmitStepErrors ==
    {ExceptClauses(exc, call.timeout) : exc \in Raisable \cup {"ValueError"}}

\* C11 (as claimed): a call that failed while resolving the agent card,
\* before any message was submitted, has raised a discovery error: an error
\* that is none of the errors the submit step can raise.
C11_DiscoveryErrorDistinct ==
    (cpc = "failed" /\ fetches = 1 /\ sent = <<>>) => cerr \notin SubmitStepErrors

\* the tool.run calls of run w made on agent name
InvokesOf(w, name) == SelectSeq(invokes[w], LAMBDA i : i.agent_name = name)

\* stage s of run w failed
StageFailed(w, s) == StageOf(w) >= s /\ invokes[w][s].outcome = "raised"

\* C12: when stage 1 of a run has failed, the run has raised stage 1's error
\* and has made no call on the stage 2 agent.
C12_Stage1FailureSkipsStage2 ==
    \A w \in Runs :
        StageFailed(w, 1) =>
            /\ wpc[w] = "raised"
            /\ werr[w] = invokes[w][1].err
            /\ werr[w] # NoError
            /\ Len(InvokesOf(w, AgentName(2))) = 0
            /\ wret[w] = <<>>

C12_Witness ==
    \E w, v \in Runs :
        /\ StageFailed(w, 1) /\ invokes[w][1].err.cause = "ValueError"
        /\ wpc[v] = "returned"

\* C13: stage 2 is called only once stage 1 has returned, with exactly the
\* text stage 1 returned, and its message is submitted after stage 1's; a run
\* that returned has returned exactly the text stage 2 returned.
C13_Stage2GetsStage1Output ==
    \A w \in Runs :
        /\ StageOf(w) >= 2 =>
              /\ invokes[w][1].outcome = "returned"
              /\ invokes[w][2].agent_name = AgentName(2)
              /\ invokes[w][2].input_text = invokes[w][1].ret
              /\ \A i \in 1..Len(invokes[w][2].sent) :
                    /\ invokes[w][2].sent[i].parts[1].text = invokes[w][1].ret
                    /\ invokes[w][2].sent[i].message_id > invokes[w][1].sent[1].message_id
        /\ wpc[w] = "returned" =>
              /\ StageOf(w) = 2
              /\ invokes[w][2].outcome = "returned"
              /\ wret[w] = invokes[w][2].ret

C13_Witness ==
    \E w \in Runs :
        /\ wpc[w] = "returned"
        /\ invokes[w][1].ret = <<"c", " ">>
        /\ invokes[w][2].sent[1].parts[1].text = <<"c", " ">>
        /\ wret[w] = <<"d">>

\* C14: a run calls each stage's tool at most once and each call submits at
\* most one message; a failed call is the run's last call and the run has
\* raised; the question backend is called at most once for a run.
C14_NoRetry ==
    \A w \in Runs :
        /\ \A s \in Stages : Len(InvokesOf(w, AgentName(s))) <= 1
        /\ \A i \in 1..StageOf(w) :
              /\ Len(invokes[w][i].sent) <= 1
              /\ invokes[w][i].outcome = "raised" => (i = StageOf(w) /\ wpc[w] = "raised")
        /\ backendCalls[w] <= 1

C14_Witness ==
    \E w \in Runs :
        /\ wpc[w] = "raised" /\ StageFailed(w, 2)
        /\ invokes[w][1].outcome = "returned"
        /\ Len(InvokesOf(w, AgentName(1))) = 1

\* C15: when the backend of the executor serving a stage has raised, the
\* stage's tool.run call never returns (no text, empty or partial, comes out
\* of it) and the run never returns; once the response is in, the call has
\* raised and the run has raised with it, without going on to a later stage.
C15_BackendFailureSurfaces ==
    \A s \in Stages :
        backendOut[s] = "error" =>
            /\ StageOf(1) = s
            /\ invokes[1][s].outcome # "returned"
            /\ invokes[1][s].ret = <<>>
            /\ wpc[1] # "returned"
            /\ wret[1] = <<>>
            /\ wpc[1] # "waiting" => (wpc[1] = "raised" /\ StageFailed(1, s)
                                      /\ werr[1] # NoError)

C15_Witness ==
    /\ backendOut[2] = "error"
    /\ wpc[1] = "raised"
    /\ invokes[1][2].err.cause = "ValueError"
    /\ invokes[1][1].outcome = "returned"

\* the step of its last tool.run call at which a failed run failed
FailedStep(w) ==
    IF invokes[w][StageOf(w)].sent = <<>> THEN "discovery" ELSE "submit"

\* C16 (as claimed): the error a failed run raises tells the stage that
\* failed and the step that failed: two runs that failed in different stages,
\* or at different steps, have raised different errors.
C16_ErrorTellsStage ==
    \A w, v \in Runs :
        (wpc[w] = "raised" /\ wpc[v] = "raised"
         /\ (StageOf(w) # StageOf(v) \/ FailedStep(w) # FailedStep(v))) =>
            werr[w] # werr[v]

\* C17 (as claimed): every completed task holds exactly one artifact, with
\* exactly one part, and that part is the result of a call that handled it.
C17_OneArtifactPerCompletedTask ==
    \A t \in TaskIds :
        store[t].state = "completed" =>
            /\ Len(store[t].artifacts) = 1
            /\ Len(store[t].artifacts[1].parts) = 1
            /\ \E r \in Reqs : task[r] = t /\ store[t].artifacts[1].parts[1] = result[r]

\* C18 (as claimed): a step that appends an artifact to a task finds the
\* task in state working.
C18_ArtifactOnlyWhileWorking ==
    [][\A t \in TaskIds :
          Len(store'[t].artifacts) > Len(store[t].artifacts) => store[t].state = "working"]_vars

\* C19: the task a call resolved stays the call's task, a task's context id
\* never changes, and every event a step publishes carries the id of the
\* call's task and that task's context id.
C19_IdsNeverChange ==
    [][/\ \A r \in Reqs : task[r] # None => task'[r] = task[r]
       /\ \A t \in TaskIds : TaskExists(t) => (TaskExists(t)' /\ store'[t].ctx = store[t].ctx)
       /\ \A r \in Reqs :
             \A i \in (Len(queue[r]) + 1)..Len(queue'[r]) :
                 /\ task'[r] # None
                 /\ queue'[r][i].task = task'[r]
                 /\ queue'[r][i].ctx = store'[task'[r]].ctx
                 /\ req[r].ref # None => queue'[r][i].ctx = store[req[r].ref].ctx]_vars

C19_Witness ==
    \E r, q \in Reqs :
        /\ r # q /\ pc[r] = "done" /\ pc[q] = "done"
        /\ req[q].ref = task[r] /\ task[q] = task[r]
        /\ Len(queue[q]) >= 3
        /\ \A i \in 1..Len(queue[q]) : queue[q][i].ctx = store[task[r]].ctx

\* all messages submitted so far, by any run
MessagesSent ==
    {m \in Runs \X Stages : m[2] <= StageOf(m[1]) /\ Len(invokes[m[1]][m[2]].sent) > 0}

\* C20: with two runs interleaved, the text a run gets from stage 1 is the
\* result of the execute call serving that run, stage 2 is handed that text,
\* a run returns what its own stage 2 returned, no two messages share an id,
\* and on the server the two calls handle different tasks, each publishing
\* events for its own task only and storing its own result in it.
C20_RunsDoNotInterfere ==
    /\ \A w \in Runs :
          /\ (StageOf(w) >= 1 /\ invokes[w][1].outcome = "returned") =>
                (invokes[w][1].ret = result[w] /\ questions[w] = result[w])
          /\ StageOf(w) >= 2 => invokes[w][2].input_text = result[w]
          /\ wpc[w] = "returned" => wret[w] = invokes[w][2].ret
          /\ Started(w) => req[w].text = topic[w]
    /\ \A m, n \in MessagesSent :
          m # n => invokes[m[1]][m[2]].sent[1].message_id # invokes[n[1]][n[2]].sent[1].message_id
    /\ \A r, q \in Reqs :
          (r # q /\ task[r] # None) =>
              /\ task[q] # task[r]
              /\ \A i \in 1..Len(queue[q]) : queue[q][i].task # task[r]
              /\ \A i \in 1..Len(store[task[r]].artifacts) :
                    store[task[r]].artifacts[i].parts = <<result[r]>>

C20_Witness ==
    /\ wpc[1] = "returned" /\ wpc[2] = "returned"
    /\ questions[1] # questions[2]
    /\ wret[1] # wret[2]
    /\ invokes[1][1].sent[1].message_id < invokes[2][1].sent[1].message_id
    /\ invokes[2][1].sent[1].message_id < invokes[1][2].sent[1].message_id
    /\ pc[1] = "done" /\ pc[2] = "done" /\ task[1] # task[2]

\* the entries every message has
BaseFields == {"role", "parts", "message_id"}

\* C21: no message of any run carries a task id or a context id, no two
\* messages of the runs share a message id, and every execute call serving a
\* stage references no task: it creates its own task, different from the
\* task of every other call, and publishes it first.
C21_StatelessAcrossRuns ==
    /\ \A m \in MessagesSent : DOMAIN invokes[m[1]][m[2]].sent[1] = BaseFields
    /\ \A w \in Runs : \A i \in 1..StageOf(w) :
          invokes[w][i].task_id = NoneArg /\ invokes[w][i].context_id = NoneArg
    /\ \A m, n \in MessagesSent :
          invokes[m[1]][m[2]].sent[1].message_id = invokes[n[1]][n[2]].sent[1].message_id
              => m = n
    /\ \A m \in MessagesSent : invokes[m[1]][m[2]].sent[1].message_id < uuid
    /\ \A r \in Reqs :
          (Started(r) /\ ~Blank(req[r].text)) =>
              /\ req[r].ref = None
              /\ task[r] # None
              /\ queue[r][1] = TaskEvent(task[r])
              /\ \A q \in Reqs \ {r} : task[q] # task[r]

C21_Witness ==
    /\ wpc[1] = "returned" /\ wpc[2] = "returned"
    /\ invokes[1][2].sent[1].message_id < invokes[2][1].sent[1].message_id
    /\ pc[1] = "done" /\ pc[2] = "done"
    /\ task[1] # task[2]

\* the ids a caller can pass, as the statement reads them: any value passed
Supplied(x) == x # NoneArg

C27_OneFetchThenOneSubmit ==
    /\ cpc = "discover" => (fetches = 0 /\ sent = <<>>)
    /\ cpc \in {"waiting", "returned", "failed"} => fetches = 1
    /\ Len(sent) <= fetches
    /\ cpc \in {"waiting", "returned"} => Len(sent) = 1

C27_Witness ==
    /\ calls = 2 /\ cpc = "returned"
    /\ fetches = 1 /\ Len(sent) = 1 /\ sent[1].message_id = 2

\* run w gave up on stage 1 with a timeout after submitting its message
TimedOut(w) ==
    /\ wpc[w] = "raised" /\ StageOf(w) = 1
    /\ invokes[w][1].sent # <<>>
    /\ invokes[w][1].err.msg = "Request timeout"

\* C22: after a run's call has failed with a timeout, the client has sent no
\* cancel request and the server has handled none; the execute call serving
\* it has not been aborted, and whatever step it is at, its next step can
\* still be taken, up to the artifact and completed.
C22_TimeoutDoesNotCancel ==
    \A w \in Runs :
        TimedOut(w) =>
            /\ invokes[w][1].cancels = 0
            /\ cancelCount = 0
            /\ pc[w] = "raised" => (backendOut[w] = "error" \/ Blank(req[w].text))
            /\ pc[w] = "working" => ENABLED UpdateStatusWorking(w)
            /\ pc[w] = "backend" => ENABLED BackendReturns(w, <<"b">>)
            /\ pc[w] = "artifact" => ENABLED AddArtifact(w)
            /\ pc[w] = "complete" => ENABLED Complete(w)
            /\ pc[w] = "done" =>
                  /\ store[task[w]].state = "completed"
                  /\ Len(store[task[w]].artifacts) = 1

C22_Witness ==
    \E w \in Runs :
        /\ TimedOut(w)
        /\ pc[w] = "done"
        /\ store[task[w]].state = "completed"
        /\ store[task[w]].artifacts[1].parts = <<<<"b">>>>

\* the kinds a call that returned has published, by its executor and by
\* whether it referenced a task
ReturnedKinds(ex, ref) ==
    (IF ref = None THEN <<"task">> ELSE <<>>)
    \o (IF ex = "question" THEN <<"working">> ELSE <<"working", "working">>)
    \o <<"artifact", "completed">>

\* C23: a cancel call, whatever the moment it arrives at, is rejected and
\* leaves every execute call and every task exactly as it found them; a call
\* that returned has published the full sequence of its executor and left
\* its task completed, cancel calls or not.
C23_CancelIsNoAbort ==
    /\ [](\A r \in Reqs :
            pc[r] = "done" =>
                /\ KindsOf(queue[r]) = ReturnedKinds(req[r].executor, req[r].ref)
                /\ store[task[r]].state \in {"completed", "working"})
    /\ [][cancelCount' # cancelCount =>
             /\ lastCancel'.err = "UnsupportedOperationError"
             /\ UNCHANGED <<pc, req, task, result, err, backendOut, backendCalls,
                            queue, store, nextId>>]_vars

C23_Witness ==
    \E r \in Reqs :
        /\ cancelCount > 0
        /\ lastCancel.task = task[r] /\ lastCancel.state = "working"
        /\ pc[r] = "done" /\ req[r].ref = None
        /\ KindsOf(queue[r]) = ReturnedKinds(req[r].executor, None)
        /\ store[task[r]].state = "completed"

\* two finished calls that got the same message and the same backend outcome
SameRequest(r, q) ==
    /\ Finished(r) /\ Finished(q)
    /\ req[r].text = req[q].text
    /\ (req[r].ref = None) = (req[q].ref = None)
    /\ backendOut[r] = backendOut[q]

\* C24: two calls with the same message and the same backend
\* outcome have published the same sequence of event kinds and raised the
\* same error, whichever executor handled each.
C24_SameEventKinds ==
    \A r, q \in Reqs :
        SameRequest(r, q) =>
            /\ KindsOf(queue[r]) = KindsOf(queue[q])
            /\ err[r] = err[q]

\* C30: a call with non-blank text that referenced no task has published,
\* from its first step on (so before any working update and any backend
\* call), the creation of its task as its first and only task event; a call
\* that referenced a task works on that task and publishes no task event;
\* the only task events are those of such calls.
C30_TaskResolution ==
    \A r \in Reqs :
        /\ (Started(r) /\ ~Blank(req[r].text) /\ req[r].ref = None) =>
              /\ Len(queue[r]) >= 1
              /\ queue[r][1].kind = "task"
              /\ queue[r][1].task = task[r]
              /\ queue[r][1].state = "submitted"
              /\ CountKind(queue[r], "task") = 1
        /\ (Started(r) /\ ~Blank(req[r].text) /\ req[r].ref # None) =>
              /\ task[r] = req[r].ref
              /\ CountKind(queue[r], "task") = 0
        /\ backendCalls[r] > 0 =>
              CountKind(queue[r], "task") = (IF req[r].ref = None THEN 1 ELSE 0)

C30_Witness ==
    \E r, q \in Reqs :
        /\ pc[r] = "working" /\ req[r].ref = None
        /\ KindsOf(queue[r]) = <<"task">> /\ backendCalls[r] = 0
        /\ req[q].ref = task[r] /\ pc[q] = "done"
        /\ CountKind(queue[q], "task") = 0

\* C25: when the LaTeX backend produced the document, the string the pipeline
\* returns begins with the opening marker and ends with the closing marker.
C25_DocumentMarkers ==
    (/\ wpc[1] = "returned"
     /\ \E i \in 1..Len(wret[1]) : wret[1][i] = OpeningMarker) =>
        /\ wret[1][1] = OpeningMarker
        /\ wret[1][Len(wret[1])] = ClosingMarker

\* the process ended with exactly one exit code
Exited == mpc = "exited" /\ Len(exit_code) = 1

\* C28 (as claimed): the process ends with 0 when the workflow succeeded, 1
\* when it raised and 130 when the user interrupted, with no other code, and
\* the output file exists only when the code is 0.
C28_ExitCodes ==
    /\ mpc = "exited" => Exited
    /\ Exited =>
          /\ exit_code[1] \in {0, 1, 130}
          /\ caught = "KeyboardInterrupt" => exit_code[1] = 130
          /\ (wpc[1] = "returned" /\ caught # "KeyboardInterrupt") => exit_code[1] = 0
          /\ (wpc[1] = "raised" /\ caught # "KeyboardInterrupt") => exit_code[1] = 1
          /\ outfile.opened => exit_code[1] = 0

\* C28 (amended): the process ends with 130 exactly when the user
\* interrupted, with 0 exactly when the workflow returned and the requested
\* file, if any, holds the returned LaTeX code, and with 1 otherwise; the
\* file is opened only after the workflow returned and holds nothing but the
\* returned code.
C28_ExitCodesAndSave ==
    /\ mpc = "exited" => Exited
    /\ Exited =>
          /\ exit_code[1] \in {0, 1, 130}
          /\ exit_code[1] = 130 <=> caught = "KeyboardInterrupt"
          /\ exit_code[1] = 0 <=>
                /\ caught = "none"
                /\ wpc[1] = "returned"
                /\ margs.save => outfile = [opened |-> TRUE, contents |-> wret[1]]
          /\ (wpc[1] = "raised" /\ caught # "KeyboardInterrupt") => exit_code[1] = 1
    /\ outfile.opened =>
          /\ margs.save
          /\ wpc[1] = "returned"
          /\ outfile.contents \in {<<>>, wret[1]}
    /\ mpc # "exited" => exit_code = <<>>

C28_Witness ==
    /\ Exited
    /\ exit_code = <<0>>
    /\ margs.save /\ margs.entry = "run_all"
    /\ outfile.opened /\ outfile.contents = wret[1] /\ wret[1] # <<>>

\* the working updates call r has published that carry a progress message
ProgressUpdates(r) ==
    {i \in 1..Len(queue[r]) :
        /\ queue[r][i].kind = "status" /\ queue[r][i].state = "working"
        /\ queue[r][i].task = task[r]
        /\ queue[r][i].name # ""}

Rejected(r) == Blank(req[r].text) \/ req[r].text = Unreadable

\* C32: the error of a call that raised is the invalid-params error when the
\* request did not pass validation and the internal error in every other
\* case (the backend failed, a publication raised); a call raises nothing
\* else, and a call that did not raise has no error.
C32_TwoErrorKinds ==
    \A r \in Reqs :
        /\ err[r] \in {"none", "InvalidParamsError", "InternalError"}
        /\ pc[r] = "raised" <=> err[r] # "none"
        /\ err[r] = "InvalidParamsError" <=> (pc[r] = "raised" /\ Rejected(r))
        /\ err[r] = "InternalError" <=> (pc[r] = "raised" /\ ~Rejected(r))
        /\ (err[r] = "InternalError" /\ backendOut[r] = "none") =>
              CountKind(queue[r], "artifact") = 0

\* complete raised for one call after its artifact was added; another call
\* with a valid request raised before it published anything
C32_Witness ==
    \E r, q \in Reqs :
        /\ err[r] = "InternalError" /\ backendOut[r] = "ok"
        /\ KindsOf(queue[r]) = <<"task", "working", "artifact">>
        /\ err[q] = "InternalError" /\ backendOut[q] = "none" /\ queue[q] = <<>>
        /\ ~Rejected(q)

\* C33: a call whose user text cannot be read raises the invalid-params
\* error: it resolves and creates no task, publishes nothing and never
\* invokes the backend.
C33_UnreadableIsInvalid ==
    \A r \in Reqs :
        (Started(r) /\ req[r].text = Unreadable) =>
            /\ pc[r] = "raised"
            /\ err[r] = "InvalidParamsError"
            /\ task[r] = None
            /\ queue[r] = <<>>
            /\ backendCalls[r] = 0
            /\ \A t \in ExistingTasks : \E q \in Reqs \ {r} : task[q] = t

C33_Witness ==
    \E r \in Reqs :
        /\ req[r].text = Unreadable /\ req[r].executor = "latex"
        /\ pc[r] = "raised" /\ err[r] = "InvalidParamsError"
        /\ ExistingTasks = {}

\* C35: every started call of execute eventually returns or raises.
C35_ExecuteTerminates ==
    \A r \in Reqs : Started(r) ~> Finished(r)

C35_Witness ==
    \E r, q \in Reqs :
        /\ pc[r] = "done" /\ store[task[r]].state = "completed"
        /\ pc[q] = "raised" /\ err[q] = "InternalError" /\ backendOut[q] = "error"

\* the three messages of run's except clauses
ErrorMessages == {"Request timeout", "Network error", "A2A communication error"}

\* C34: a failed run reports exactly one of the three messages, chosen by the
\* class of what was raised: the timeout message exactly for timeouts, the
\* network message exactly for the other transport errors, the generic
\* message exactly for everything else; only the timeout message carries
\* the timeout bound.
C34_ThreeFailureClasses ==
    cpc = "failed" =>
        /\ cerr.msg \in ErrorMessages
        /\ cerr.msg = "Request timeout" <=> IsInstance(raised, "httpx.TimeoutException")
        /\ cerr.msg = "Network error" <=>
              (IsInstance(raised, "httpx.HTTPError")
               /\ ~IsInstance(raised, "httpx.TimeoutException"))
        /\ cerr.msg = "A2A communication error" <=> ~IsInstance(raised, "httpx.HTTPError")
        /\ cerr.timeout = (IF cerr.msg = "Request timeout" THEN call.timeout ELSE 0)
        /\ cerr.cause = raised

C34_Witness ==
    /\ cpc = "failed" /\ calls = 2
    /\ raised = "httpx.ReadTimeout"
    /\ cerr.msg = "Request timeout" /\ cerr.timeout = call.timeout
    /\ sent # <<>>

\* C36: a started run eventually returns or raises; all along it has called
\* stage 1's tool at most once and then stage 2's tool at most once, each
\* later call following a call that returned; a run that returned hands back
\* the text of its stage 2 call, a run that raised ends on a call that raised.
C36_RunTerminates ==
    /\ [](LET n == Len(invokes[1])
          IN /\ n <= 2
             /\ \A i \in 1..n :
                   /\ invokes[1][i].agent_name = AgentName(i)
                   /\ i < n => invokes[1][i].outcome = "returned"
             /\ wpc[1] = "returned" =>
                   (n = 2 /\ invokes[1][2].outcome = "returned"
                    /\ wret[1] = invokes[1][2].ret)
             /\ wpc[1] = "raised" => (n >= 1 /\ invokes[1][n].outcome = "raised"))
    /\ (wpc[1] # "idle") ~> (wpc[1] \in {"returned", "raised"})

C36_Witness ==
    /\ wpc[1] = "returned" /\ Len(invokes[1]) = 2
    /\ pc[1] = "done" /\ pc[2] = "done"
    /\ wret[1] = result[2]

\* the nodes of the graph in the order of its edges
NodeOrder == <<"parse_questions", "convert_to_latex", "format_output">>

\* C37: the nodes run so far are the first nodes of the order parse_questions,
\* convert_to_latex, format_output, each once; the graph ends after all
\* three; the backend is called once, by convert_to_latex and by no other
\* node; the text returned is the one format_output wrote.
C37_GraphRunsInOrder ==
    /\ Len(visited) <= 3
    /\ \A i \in 1..Len(visited) : visited[i].node = NodeOrder[i]
    /\ gpc \in {"END", "returned"} => Len(visited) = 3
    /\ Len(prompts) = (IF Len(visited) >= 2 THEN 1 ELSE 0)
    /\ gpc = "returned" => (gret = visited[3].wrote /\ gret = gstate.latex_code)
    /\ gpc = "raised" => (Len(visited) = 2 /\ gret = <<>>)
    /\ gpc \notin {"idle", "END", "returned", "raised"} =>
          gpc = NodeOrder[Len(visited) + 1]

C37_Witness ==
    /\ gpc = "returned"
    /\ Len(visited) = 3 /\ Len(prompts) = 1
    /\ gret = <<"%", "2", OpeningMarker, ClosingMarker>>

\* the lines of a text, by where they start: at the start of the text and
\* after every newline
LineStarts(text) == {1} \cup {i + 1 : i \in {j \in 1..Len(text) : text[j] = "\n"}}

\* the characters of the line starting at p that are not white space
InkOf(text, p) ==
    {j \in p..Len(text) :
        /\ text[j] \notin {" ", "\n"}
        /\ \A k \in p..j : text[k] # "\n"}

NonBlankStarts(text) == {p \in LineStarts(text) : InkOf(text, p) # {}}

Least(S) == CHOOSE x \in S : \A y \in S : x <= y

Greatest(S) == CHOOSE x \in S : \A y \in S : x >= y

\* the non-blank lines of a text, trimmed, in order
NonBlankLines(text) ==
    LET starts == NonBlankStarts(text)
        kth(k) == CHOOSE p \in starts : Cardinality({q \in starts : q < p}) = k - 1
    IN [k \in 1..Cardinality(starts) |->
           SubSeq(text, Least(InkOf(text, kth(k))), Greatest(InkOf(text, kth(k))))]

\* C40: once parse_questions has run, the metadata hold the non-blank lines
\* of the questions text, trimmed and in order, and their number as count;
\* the prompt carries that list, one question per line; the header written
\* by format_output gives that count, in front of the code convert_to_latex
\* wrote.
C40_CountIsNonBlankLines ==
    LET expected == NonBlankLines(gstate.questions)
    IN /\ Len(visited) >= 1 =>
             /\ gstate.metadata.parsed_questions = expected
             /\ gstate.metadata.count = Len(expected)
             /\ visited[1].wrote = gstate.metadata
       /\ Len(prompts) >= 1 =>
             /\ Len(expected) > 0 => Split(prompts[1], "\n") = expected
             /\ Len(expected) = 0 => prompts[1] = <<>>
       /\ Len(visited) = 3 =>
             /\ Len(gstate.latex_code) >= 2
             /\ gstate.latex_code[1] = "%"
             /\ gstate.latex_code[2] = ToString(Len(expected))
             /\ SubSeq(gstate.latex_code, 3, Len(gstate.latex_code)) = visited[2].wrote

C40_Witness ==
    /\ gpc = "returned"
    /\ gstate.questions = <<"a", "\n", "\n", "a">>
    /\ gstate.metadata.count = 2
    /\ prompts = << <<"a", "\n", "a">> >>
    /\ gret[2] = "2"

\* C38: in run_all the workflow is not started before both agents answered,
\* each from a process that was started; when an agent has not answered in
\* time, the script ends with code 1 after cleaning up, the workflow not run.
C38_WorkflowAfterAgentsReady ==
    margs.entry = "run_all" =>
        /\ (wpc[1] # "idle" \/ mpc \in {"running", "saving", "finishing"}) =>
              ready = Agents
        /\ \A i \in ready :
              /\ procs[i] # "not_started"
              /\ \E k \in 1..Len(processes) : processes[k] = i
        /\ (mpc = "exited" /\ ready # Agents) => wpc[1] = "idle"
        /\ (mpc = "exited" /\ caught = "Exception" /\ ready # Agents) =>
              /\ exit_code = <<1>>
              /\ Len(processes) = Cardinality(Agents)
              /\ cleanups = 2

C38_Witness ==
    /\ margs.entry = "run_all" /\ mpc = "exited"
    /\ caught = "Exception" /\ ready = {1}
    /\ exit_code = <<1>> /\ wpc[1] = "idle"
    /\ procs = [i \in Agents |-> "terminated"]

\* C39: when run_all has ended, no agent process it started is still running.
C39_AgentsStoppedAtExit ==
    (margs.entry = "run_all" /\ mpc = "exited") =>
        \A i \in Agents : procs[i] # "running"

====
